---- MODULE Spec2Model ----
(***************************************************************************)
(* A model of FlowLogsAnalyzer (src/main.py): the tag-mapping file is      *)
(* parsed into the tagMappings dict, the flow-log file is parsed and       *)
(* joined against it, and the three-section report is written.             *)
(* Text is modelled as TLA+ strings, handled character by character.       *)
(***************************************************************************)
EXTENDS Integers, Sequences, FiniteSets, TLC

VARIABLES
    tagFile,          \* lines of the tag-mapping file (header first), without "\n"
    flowFile,         \* lines of the flow-log file (header first), without "\n"
    pc,               \* position of main()
    tagGen,           \* the generator genRecord(tagMappingsPath, TagRecord, ...)
    flowGen,          \* the generator genRecord(flowlogsPath, FlowLogRecordV2)
    tagMappings,      \* the dict of main(), in insertion order
    untaggedCounter,  \* the counter of main()
    flowRecord,       \* the loop variable of the second loop of main()
    tagCounts,        \* the defaultdict(int) of main(), in insertion order
    outOpen,          \* whether the output file is open
    out,              \* the strings written to the output file, one per f.write
    log               \* the entries handed to the logger

vars == <<tagFile, flowFile, pc, tagGen, flowGen, tagMappings, untaggedCounter,
          flowRecord, tagCounts, outOpen, out, log>>

----------------------------------------------------------------------------
(* Bounds of the model *)

MaxTagLines == 2
MaxFlowLines == 2

----------------------------------------------------------------------------
(* Python's str methods and int(), on strings *)

Ch(s, i) == SubSeq(s, i, i)

UpperLetters == "ABCDEFGHIJKLMNOPQRSTUVWXYZ"
LowerLetters == "abcdefghijklmnopqrstuvwxyz"

\* the lower-case letter of every upper-case letter
LowerTable ==
    [c \in {Ch(UpperLetters, i) : i \in 1..Len(UpperLetters)} |->
        Ch(LowerLetters, CHOOSE i \in 1..Len(UpperLetters) : Ch(UpperLetters, i) = c)]

LowerCh(c) == IF c \in DOMAIN LowerTable THEN LowerTable[c] ELSE c

RECURSIVE Lower(_)
Lower(s) == IF Len(s) = 0 THEN "" ELSE LowerCh(Ch(s, 1)) \o Lower(Tail(s))

IsSpace(c) == c \in {" ", "\t", "\n", "\r", "\f"}

RECURSIVE LStrip(_)
LStrip(s) == IF Len(s) > 0 /\ IsSpace(Ch(s, 1)) THEN LStrip(Tail(s)) ELSE s

RECURSIVE RStrip(_)
RStrip(s) ==
    IF Len(s) > 0 /\ IsSpace(Ch(s, Len(s))) THEN RStrip(SubSeq(s, 1, Len(s) - 1)) ELSE s

Strip(s) == RStrip(LStrip(s))

StartsWith(s, p) == Len(s) >= Len(p) /\ SubSeq(s, 1, Len(p)) = p

\* str.split(sep): the parts between the occurrences of sep, left to right
RECURSIVE SplitFrom(_, _, _)
SplitFrom(s, sep, cur) ==
    IF Len(s) = 0 THEN <<cur>>
    ELSE IF StartsWith(s, sep)
         THEN <<cur>> \o SplitFrom(SubSeq(s, Len(sep) + 1, Len(s)), sep, "")
         ELSE SplitFrom(Tail(s), sep, cur \o Ch(s, 1))

Split(s, sep) == SplitFrom(s, sep, "")

\* sep.join(parts)
RECURSIVE Join(_, _)
Join(sep, parts) ==
    IF Len(parts) = 0 THEN ""
    ELSE IF Len(parts) = 1 THEN parts[1]
    ELSE parts[1] \o sep \o Join(sep, Tail(parts))

\* str.replace(old, new): every non-overlapping occurrence, left to right
RECURSIVE Replace(_, _, _)
Replace(s, old, new) ==
    IF Len(s) = 0 THEN ""
    ELSE IF StartsWith(s, old)
         THEN new \o Replace(SubSeq(s, Len(old) + 1, Len(s)), old, new)
         ELSE Ch(s, 1) \o Replace(Tail(s), old, new)

Digits == "0123456789"
DigitStr(d) == Ch(Digits, d + 1)
\* the value of every decimal digit
DigitTable == [c \in {DigitStr(d) : d \in 0..9} |-> CHOOSE d \in 0..9 : DigitStr(d) = c]
IsDigit(c) == c \in DOMAIN DigitTable
DigitVal(c) == DigitTable[c]

\* str(n) and f"{n}" of an int
RECURSIVE NatToStr(_)
NatToStr(n) == IF n < 10 THEN DigitStr(n) ELSE NatToStr(n \div 10) \o DigitStr(n % 10)

IntToStr(n) == IF n < 0 THEN "-" \o NatToStr(0 - n) ELSE NatToStr(n)

\* the digits of an int literal: digits, single underscores only between digits
ValidIntBody(b) ==
    /\ Len(b) > 0
    /\ IsDigit(Ch(b, 1))
    /\ IsDigit(Ch(b, Len(b)))
    /\ \A i \in 1..Len(b) : IsDigit(Ch(b, i)) \/ Ch(b, i) = "_"
    /\ \A i \in 1..(Len(b) - 1) : ~(Ch(b, i) = "_" /\ Ch(b, i + 1) = "_")

RECURSIVE IntBodyVal(_, _)
IntBodyVal(b, acc) ==
    IF Len(b) = 0 THEN acc
    ELSE IF Ch(b, 1) = "_" THEN IntBodyVal(Tail(b), acc)
    ELSE IntBodyVal(Tail(b), 10 * acc + DigitVal(Ch(b, 1)))

\* a coercion either gives a value or raises
Ok(v) == [ok |-> TRUE, val |-> v]
Raise == [ok |-> FALSE, val |-> "ValueError"]

\* int(s): surrounding whitespace is dropped, one sign is allowed
PyInt(s) ==
    LET t == Strip(s)
        signed == Len(t) > 0 /\ Ch(t, 1) \in {"+", "-"}
        body == IF signed THEN Tail(t) ELSE t
    IN  IF ~ValidIntBody(body) THEN Raise
        ELSE IF signed /\ Ch(t, 1) = "-" THEN Ok(0 - IntBodyVal(body, 0))
        ELSE Ok(IntBodyVal(body, 0))

----------------------------------------------------------------------------
(* The enumerations and the record classes *)

IANAProtocolNum ==
    << [cls |-> "IANAProtocolNum", name |-> "ICMP", value |-> "1"],
       [cls |-> "IANAProtocolNum", name |-> "IPv4", value |-> "4"],
       [cls |-> "IANAProtocolNum", name |-> "TCP", value |-> "6"],
       [cls |-> "IANAProtocolNum", name |-> "UDP", value |-> "17"],
       [cls |-> "IANAProtocolNum", name |-> "IPv6", value |-> "41"] >>

COUNT == 1

Action ==
    << [cls |-> "Action", name |-> "ACCEPT", value |-> "ACCEPT"],
       [cls |-> "Action", name |-> "REJECT", value |-> "REJECT"],
       [cls |-> "Action", name |-> "UNKNOWN", value |-> "-"] >>

LogStatus ==
    << [cls |-> "LogStatus", name |-> "ACCEPT", value |-> "OK"],
       [cls |-> "LogStatus", name |-> "REJECT", value |-> "NODATA"],
       [cls |-> "LogStatus", name |-> "UNKNOWN", value |-> "SKIPDATA"] >>

\* Variant: a value that is no member's falls back to the first member
EnumCall_Default(enum, v) ==
    IF \E i \in 1..Len(enum) : enum[i].value = v
    THEN Ok(enum[CHOOSE i \in 1..Len(enum) : enum[i].value = v])
    ELSE Ok(enum[1])

\* Enum(value): the member with exactly that value, or ValueError
EnumCall(enum, v) ==
    IF \E i \in 1..Len(enum) : enum[i].value = v
    THEN Ok(enum[CHOOSE i \in 1..Len(enum) : enum[i].value = v])
    ELSE Raise

\* str(member) of a plain Enum
EnumStr(m) == m.cls \o "." \o m.name

\* the annotations of the dataclasses, in declaration order
FlowLogRecordV2 ==
    << <<"version", "int">>, <<"accountId", "str">>, <<"interfaceId", "str">>,
       <<"srcAddr", "str">>, <<"dstAddr", "str">>, <<"srcPort", "int">>,
       <<"dstPort", "int">>, <<"protocol", "IANAProtocolNum">>, <<"packets", "int">>,
       <<"numBytes", "int">>, <<"startTimeSecs", "int">>, <<"endTimeSecs", "int">>,
       <<"action", "Action">>, <<"logStatus", "LogStatus">> >>

TagRecord == << <<"dstPort", "int">>, <<"protocol", "str">>, <<"tag", "str">> >>

Annotations(recordCls) ==
    IF recordCls = "TagRecord" THEN TagRecord ELSE FlowLogRecordV2

\* _typ(v) for one annotated type
Coerce(typ, v) ==
    CASE typ = "int" -> PyInt(v)
      [] typ = "str" -> Ok(v)
      [] typ = "IANAProtocolNum" -> EnumCall(IANAProtocolNum, v)
      [] typ = "Action" -> EnumCall(Action, v)
      [] typ = "LogStatus" -> EnumCall(LogStatus, v)

\* recordCls(*[_typ(v) for _typ, v in zip(_types, parts)]), for len(parts) = len(_types)
MakeRecord(recordCls, parts) ==
    LET ann == Annotations(recordCls)
        vals == [i \in 1..Len(ann) |-> Coerce(ann[i][2], parts[i])]
    IN  IF \A i \in 1..Len(ann) : vals[i].ok
        THEN Ok([i \in 1..Len(ann) |-> vals[i].val])
        ELSE Raise

FieldIndex(recordCls, field) ==
    CHOOSE i \in 1..Len(Annotations(recordCls)) : Annotations(recordCls)[i][1] = field

\* r.field
Field(recordCls, r, field) == r[FieldIndex(recordCls, field)]

----------------------------------------------------------------------------
(* genFields and genRecord *)

NewGen == [state |-> "created", fileOpen |-> FALSE, pos |-> 0, counter |-> 0, skipped |-> 0]

\* Variant: only the protocol field of a tag-mapping line is lower-cased
LineLambda_ProtocolOnly(recordCls, line) ==
    IF recordCls = "TagRecord"
    THEN LET parts == Split(Strip(line), ",")
         IN  Join(",", [i \in 1..Len(parts) |->
                           IF i = 2 THEN Lower(parts[i]) ELSE parts[i]])
    ELSE Strip(line)

\* the two lineLambda arguments of main()
LineLambda(recordCls, line) ==
    IF recordCls = "TagRecord" THEN Lower(Strip(line)) ELSE Strip(line)

\* the line the file iterator gives: the text of the line and its terminator
ReadLine(file, i) == file[i] \o "\n"

\* the first next(): genRecord sets its counters, genFields opens the file and
\* reads the header line
GenOpen(g, file) ==
    [gen |-> [g EXCEPT !.state = "running", !.fileOpen = TRUE,
                       !.pos = IF Len(file) = 0 THEN 0 ELSE 1,
                       !.counter = 0, !.skipped = 0],
     logs |-> << [level |-> "INFO", event |-> "CSV Header",
                  text |-> IF Len(file) = 0 THEN "" ELSE Strip(ReadLine(file, 1))] >>]

\* the counter after the generator is resumed from its yield
Resumed(g) == IF g.state = "suspended" THEN g.counter + 1 ELSE g.counter

\* one pass of the loop of genRecord over the next line of the file
GenLine(g, file, recordCls) ==
    LET parts == Split(LineLambda(recordCls, ReadLine(file, g.pos + 1)), ",")
        made == MakeRecord(recordCls, parts)
        g1 == [g EXCEPT !.pos = g.pos + 1, !.counter = Resumed(g), !.state = "running"]
    IN  IF Len(parts) # Len(Annotations(recordCls))
        THEN [gen |-> g1, yielded |-> FALSE, rec |-> <<>>,
              logs |-> << [level |-> "INFO", event |-> "Skipping invalid record",
                           text |-> Join(",", parts)] >>]
        ELSE IF made.ok
        THEN [gen |-> [g1 EXCEPT !.state = "suspended"], yielded |-> TRUE,
              rec |-> made.val, logs |-> <<>>]
        ELSE [gen |-> [g1 EXCEPT !.skipped = g.skipped + 1], yielded |-> FALSE,
              rec |-> <<>>,
              logs |-> << [level |-> "WARNING", event |-> "Skipping line",
                           text |-> Join(",", parts)] >>]

\* end of input: the file is closed and the summary is logged
GenEnd(g, recordCls) ==
    LET c == Resumed(g)
    IN  [gen |-> [g EXCEPT !.state = "finished", !.fileOpen = FALSE, !.counter = c],
         logs |-> << [level |-> "INFO", event |-> "Completed parsing",
                      cls |-> recordCls, ok |-> c, skipped |-> g.skipped,
                      total |-> g.skipped + c] >>]

----------------------------------------------------------------------------
(* Python dicts: a sequence of <<key, value>> pairs in insertion order *)

DictHas(d, k) == \E i \in 1..Len(d) : d[i][1] = k

DictIndex(d, k) == CHOOSE i \in 1..Len(d) : d[i][1] = k

DictGet(d, k) == d[DictIndex(d, k)][2]

\* d[k] = v: a key already present keeps its place
DictSet(d, k, v) ==
    IF DictHas(d, k) THEN [d EXCEPT ![DictIndex(d, k)] = <<k, v>>]
    ELSE Append(d, <<k, v>>)

DictKeys(d) == [i \in 1..Len(d) |-> d[i][1]]

\* a defaultdict(int) lookup
DefaultGet(d, k) == IF DictHas(d, k) THEN DictGet(d, k) ELSE 0

----------------------------------------------------------------------------
(* main() *)

\* Variant: a key already in the table keeps its first record
TagLoopBody_FirstWins(tm, tagRecord) ==
    IF DictHas(tm, <<Field("TagRecord", tagRecord, "dstPort"),
                     Field("TagRecord", tagRecord, "protocol")>>)
    THEN tm
    ELSE DictSet(tm,
                 <<Field("TagRecord", tagRecord, "dstPort"),
                   Field("TagRecord", tagRecord, "protocol")>>,
                 <<tagRecord, 0>>)

\* the body of the first loop
TagLoopBody(tm, tagRecord) ==
    DictSet(tm,
            <<Field("TagRecord", tagRecord, "dstPort"),
              Field("TagRecord", tagRecord, "protocol")>>,
            <<tagRecord, 0>>)

\* Variant: the member's name is not lower-cased
ProtocolStr_NoLower(fr) ==
    Replace(EnumStr(Field("FlowLogRecordV2", fr, "protocol")), "IANAProtocolNum.", "")

\* protocolStr of the second loop
ProtocolStr(fr) ==
    Replace(Lower(EnumStr(Field("FlowLogRecordV2", fr, "protocol"))),
            "ianaprotocolnum.", "")

FlowKey(fr) == <<Field("FlowLogRecordV2", fr, "dstPort"), ProtocolStr(fr)>>

\* Variant: a record that matches no key is not counted
FlowLoopBody_MissNotCounted(tm, untagged, fr) ==
    IF DictHas(tm, <<Field("FlowLogRecordV2", fr, "dstPort"), ProtocolStr(fr)>>)
    THEN [tm |-> DictSet(tm, <<Field("FlowLogRecordV2", fr, "dstPort"), ProtocolStr(fr)>>,
                         [DictGet(tm, <<Field("FlowLogRecordV2", fr, "dstPort"),
                                        ProtocolStr(fr)>>) EXCEPT ![COUNT + 1] = @ + 1]),
          untagged |-> untagged]
    ELSE [tm |-> tm, untagged |-> untagged]

\* Variant: the untagged counter grows for every record, matched or not
FlowLoopBody_NoElse(tm, untagged, fr) ==
    IF DictHas(tm, <<Field("FlowLogRecordV2", fr, "dstPort"), ProtocolStr(fr)>>)
    THEN [tm |-> DictSet(tm, <<Field("FlowLogRecordV2", fr, "dstPort"), ProtocolStr(fr)>>,
                         [DictGet(tm, <<Field("FlowLogRecordV2", fr, "dstPort"),
                                        ProtocolStr(fr)>>) EXCEPT ![COUNT + 1] = @ + 1]),
          untagged |-> untagged + 1]
    ELSE [tm |-> tm, untagged |-> untagged + 1]

\* Variant: a record that matches no key adds its key to the table
FlowLoopBody_InsertOnMiss(tm, untagged, fr) ==
    IF DictHas(tm, <<Field("FlowLogRecordV2", fr, "dstPort"), ProtocolStr(fr)>>)
    THEN [tm |-> DictSet(tm, <<Field("FlowLogRecordV2", fr, "dstPort"), ProtocolStr(fr)>>,
                         [DictGet(tm, <<Field("FlowLogRecordV2", fr, "dstPort"),
                                        ProtocolStr(fr)>>) EXCEPT ![COUNT + 1] = @ + 1]),
          untagged |-> untagged]
    ELSE [tm |-> Append(tm, << <<Field("FlowLogRecordV2", fr, "dstPort"), ProtocolStr(fr)>>,
                               << <<Field("FlowLogRecordV2", fr, "dstPort"),
                                    ProtocolStr(fr), "untagged">>, 0 >> >>),
          untagged |-> untagged + 1]

\* the body of the second loop: the dict and the untagged counter after it
FlowLoopBody(tm, untagged, fr) ==
    IF DictHas(tm, FlowKey(fr))
    THEN [tm |-> DictSet(tm, FlowKey(fr),
                         [DictGet(tm, FlowKey(fr)) EXCEPT ![COUNT + 1] = @ + 1]),
          untagged |-> untagged]
    ELSE [tm |-> tm, untagged |-> untagged + 1]

\* Variant: the count of a tag is overwritten by each key, not added up
RECURSIVE BuildTagCounts_Overwrite(_, _, _)
BuildTagCounts_Overwrite(tm, i, tc) ==
    IF i > Len(tm) THEN tc
    ELSE BuildTagCounts_Overwrite(tm, i + 1,
             DictSet(tc, Field("TagRecord", DictGet(tm, DictKeys(tm)[i])[1], "tag"),
                     DictGet(tm, DictKeys(tm)[i])[COUNT + 1]))

\* the loop that fills tagCounts
RECURSIVE BuildTagCounts(_, _, _)
BuildTagCounts(tm, i, tc) ==
    IF i > Len(tm) THEN tc
    ELSE LET v == DictGet(tm, DictKeys(tm)[i])
             tag == Field("TagRecord", v[1], "tag")
         IN  BuildTagCounts(tm, i + 1, DictSet(tc, tag, DefaultGet(tc, tag) + v[COUNT + 1]))

TagSection(tc) ==
    <<"Tag,Count\n">>
    \o [i \in 1..Len(tc) |-> tc[i][1] \o "," \o IntToStr(tc[i][2]) \o "\n"]

PortSection(tm) ==
    <<"Port,Protocol,Count\n">>
    \o [i \in 1..Len(tm) |->
           IntToStr(DictKeys(tm)[i][1]) \o "," \o DictKeys(tm)[i][2] \o ","
           \o IntToStr(DictGet(tm, DictKeys(tm)[i])[COUNT + 1]) \o "\n"]

UntaggedLine(untagged) == "Untagged," \o IntToStr(untagged) \o "\n"

----------------------------------------------------------------------------
(* The input files *)

TagHeader == "dstport,protocol,tag"

TagLines ==
    { "25,TCP,Email",      \* upper-case protocol, mixed-case tag
      "25,tcp,Web",        \* the same key as the line above
      "443,Udp,web",       \* the tag of the line above in another case
      "80,tcp" }           \* two fields

FlowHeader == "version,account-id,dstport,protocol,action,log-status"

FlowLine(dstPort, protocol) ==
    "2,a,e,s,d,1," \o dstPort \o "," \o protocol \o ",1,1,1,2,ACCEPT,OK"

FlowLines ==
    { FlowLine("25", "6"),
      FlowLine("443", "17"),
      FlowLine("25", "17"),
      FlowLine("25", "99"),          \* no IANAProtocolNum value
      "2,a,e,s,d,1,25,6,1,1,1,2,ACCEPT" }   \* 13 fields

SeqsUpTo(S, n) == UNION { [1..k -> S] : k \in 0..n }

\* a file is empty, or a header line and data lines
Files(header, lines, n) == { <<>> } \cup { <<header>> \o d : d \in SeqsUpTo(lines, n) }

----------------------------------------------------------------------------
(* The state machine *)

Init ==
    /\ tagFile \in Files(TagHeader, TagLines, MaxTagLines)
    /\ flowFile \in Files(FlowHeader, FlowLines, MaxFlowLines)
    /\ pc = "tags"
    /\ tagGen = NewGen
    /\ flowGen = NewGen
    /\ tagMappings = <<>>
    /\ untaggedCounter = 0
    /\ flowRecord = <<>>
    /\ tagCounts = <<>>
    /\ outOpen = FALSE
    /\ out = <<>>
    /\ log = <<>>

\* the first loop asks genRecord for its first record: the tag file is opened
TagOpen ==
    /\ pc = "tags"
    /\ tagGen.state = "created"
    /\ tagGen' = GenOpen(tagGen, tagFile).gen
    /\ log' = log \o GenOpen(tagGen, tagFile).logs
    /\ UNCHANGED <<tagFile, flowFile, pc, flowGen, tagMappings, untaggedCounter,
                   flowRecord, tagCounts, outOpen, out>>

\* one line of the tag file: skipped, or yielded and stored in tagMappings
TagLine ==
    /\ pc = "tags"
    /\ tagGen.state \in {"running", "suspended"}
    /\ tagGen.pos < Len(tagFile)
    /\ LET r == GenLine(tagGen, tagFile, "TagRecord")
       IN  /\ tagGen' = r.gen
           /\ log' = log \o r.logs
           /\ tagMappings' = IF r.yielded THEN TagLoopBody(tagMappings, r.rec)
                             ELSE tagMappings
    /\ UNCHANGED <<tagFile, flowFile, pc, flowGen, untaggedCounter, flowRecord,
                   tagCounts, outOpen, out>>

\* Variant: the first loop ends after any record, not at the end of the file
TagEnd_Early ==
    /\ pc = "tags"
    /\ tagGen.state \in {"running", "suspended"}
    /\ tagGen' = GenEnd(tagGen, "TagRecord").gen
    /\ log' = log \o GenEnd(tagGen, "TagRecord").logs
    /\ pc' = "flows"
    /\ UNCHANGED <<tagFile, flowFile, flowGen, tagMappings, untaggedCounter,
                   flowRecord, tagCounts, outOpen, out>>

\* the tag file is exhausted: the first loop ends
TagEnd ==
    /\ pc = "tags"
    /\ tagGen.state \in {"running", "suspended"}
    /\ tagGen.pos = Len(tagFile)
    /\ tagGen' = GenEnd(tagGen, "TagRecord").gen
    /\ log' = log \o GenEnd(tagGen, "TagRecord").logs
    /\ pc' = "flows"
    /\ UNCHANGED <<tagFile, flowFile, flowGen, tagMappings, untaggedCounter,
                   flowRecord, tagCounts, outOpen, out>>

\* the second loop asks genRecord for its first record: the flow file is opened
FlowOpen ==
    /\ pc = "flows"
    /\ flowGen.state = "created"
    /\ flowGen' = GenOpen(flowGen, flowFile).gen
    /\ log' = log \o GenOpen(flowGen, flowFile).logs
    /\ UNCHANGED <<tagFile, flowFile, pc, tagGen, tagMappings, untaggedCounter,
                   flowRecord, tagCounts, outOpen, out>>

\* one line of the flow file: skipped, or yielded and counted
FlowLineStep ==
    /\ pc = "flows"
    /\ flowGen.state \in {"running", "suspended"}
    /\ flowGen.pos < Len(flowFile)
    /\ LET r == GenLine(flowGen, flowFile, "FlowLogRecordV2")
           b == FlowLoopBody(tagMappings, untaggedCounter, r.rec)
       IN  /\ flowGen' = r.gen
           /\ IF r.yielded
              THEN /\ flowRecord' = r.rec
                   /\ tagMappings' = b.tm
                   /\ untaggedCounter' = b.untagged
                   /\ log' = log \o r.logs \o
                        << [level |-> "INFO", event |-> "flow",
                            text |-> IntToStr(Field("FlowLogRecordV2", r.rec, "dstPort"))
                                     \o "," \o
                                     Field("FlowLogRecordV2", r.rec, "protocol").value] >>
              ELSE /\ log' = log \o r.logs
                   /\ UNCHANGED <<flowRecord, tagMappings, untaggedCounter>>
    /\ UNCHANGED <<tagFile, flowFile, pc, tagGen, tagCounts, outOpen, out>>

\* the flow file is exhausted: the second loop ends
FlowEnd ==
    /\ pc = "flows"
    /\ flowGen.state \in {"running", "suspended"}
    /\ flowGen.pos = Len(flowFile)
    /\ flowGen' = GenEnd(flowGen, "FlowLogRecordV2").gen
    /\ log' = log \o GenEnd(flowGen, "FlowLogRecordV2").logs
    /\ pc' = "open"
    /\ UNCHANGED <<tagFile, flowFile, tagGen, tagMappings, untaggedCounter,
                   flowRecord, tagCounts, outOpen, out>>

\* open(outputPath, "w") and the loop that sums the counts per tag
OpenOutput ==
    /\ pc = "open"
    /\ outOpen' = TRUE
    /\ out' = <<>>
    /\ tagCounts' = BuildTagCounts(tagMappings, 1, <<>>)
    /\ pc' = "write_tags"
    /\ UNCHANGED <<tagFile, flowFile, tagGen, flowGen, tagMappings, untaggedCounter,
                   flowRecord, log>>

WriteTagSection ==
    /\ pc = "write_tags"
    /\ out' = out \o TagSection(tagCounts)
    /\ pc' = "write_ports"
    /\ UNCHANGED <<tagFile, flowFile, tagGen, flowGen, tagMappings, untaggedCounter,
                   flowRecord, tagCounts, outOpen, log>>

WritePortSection ==
    /\ pc = "write_ports"
    /\ out' = out \o PortSection(tagMappings)
    /\ pc' = "write_untagged"
    /\ UNCHANGED <<tagFile, flowFile, tagGen, flowGen, tagMappings, untaggedCounter,
                   flowRecord, tagCounts, outOpen, log>>

\* the last write; the with block closes the file
WriteUntagged ==
    /\ pc = "write_untagged"
    /\ out' = Append(out, UntaggedLine(untaggedCounter))
    /\ outOpen' = FALSE
    /\ pc' = "done"
    /\ UNCHANGED <<tagFile, flowFile, tagGen, flowGen, tagMappings, untaggedCounter,
                   flowRecord, tagCounts, log>>

Next ==
    \/ TagOpen
    \/ TagLine
    \/ TagEnd
    \/ FlowOpen
    \/ FlowLineStep
    \/ FlowEnd
    \/ OpenOutput
    \/ WriteTagSection
    \/ WritePortSection
    \/ WriteUntagged

Spec == Init /\ [][Next]_vars

----------------------------------------------------------------------------
(* Definitions used to state the properties *)

\* the records a generator has yielded so far
Yielded(g) == g.counter + (IF g.state = "suspended" THEN 1 ELSE 0)

RECURSIVE SumCounts(_)
SumCounts(tm) == IF Len(tm) = 0 THEN 0 ELSE tm[1][2][2] + SumCounts(Tail(tm))

\* the canonical lower-case name of an IANA protocol code
CanonicalName(code) ==
    CASE code = "1" -> "icmp"
      [] code = "4" -> "ipv4"
      [] code = "6" -> "tcp"
      [] code = "17" -> "udp"
      [] code = "41" -> "ipv6"

\* a step of the second loop in which genRecord yields a flow record
FlowYieldStep ==
    /\ pc = "flows"
    /\ flowGen.state \in {"running", "suspended"}
    /\ flowGen'.pos = flowGen.pos + 1
    /\ flowGen'.state = "suspended"

\* the join key of the flow record just yielded
YieldedKey == <<flowRecord'[7], CanonicalName(flowRecord'[8].value)>>

----------------------------------------------------------------------------
(* Properties *)

\* C1: at every point of the aggregation pass the per-key counters and the
\* untagged counter add up to the number of flow records yielded so far, and
\* once the flow log is exhausted they add up to the OK count of genRecord.
C1_RoundTripCounting ==
    /\ SumCounts(tagMappings) + untaggedCounter = Yielded(flowGen)
    /\ flowGen.state = "finished" =>
          SumCounts(tagMappings) + untaggedCounter = flowGen.counter

C1_Witness ==
    /\ pc = "done"
    /\ flowGen.counter = 2
    /\ untaggedCounter = 1
    /\ SumCounts(tagMappings) = 1

\* C2: when a flow record is yielded, either its key (dstPort, canonical
\* lower-case protocol name) is in the tag table, and then exactly that
\* entry's counter grows by 1 and the untagged counter stays, or it is not,
\* and then the untagged counter grows by 1 and the table stays as it is.
C2_HitOrMiss ==
    [][FlowYieldStep =>
        IF \E i \in 1..Len(tagMappings) : tagMappings[i][1] = YieldedKey
        THEN /\ untaggedCounter' = untaggedCounter
             /\ Len(tagMappings') = Len(tagMappings)
             /\ \A i \in 1..Len(tagMappings) :
                   tagMappings'[i] =
                      IF tagMappings[i][1] = YieldedKey
                      THEN <<tagMappings[i][1],
                             <<tagMappings[i][2][1], tagMappings[i][2][2] + 1>> >>
                      ELSE tagMappings[i]
        ELSE /\ untaggedCounter' = untaggedCounter + 1
             /\ tagMappings' = tagMappings]_vars

C2_Witness ==
    /\ pc = "flows"
    /\ flowGen.state = "suspended"
    /\ Len(tagMappings) = 2
    /\ untaggedCounter = 1
    /\ SumCounts(tagMappings) = 1

\* C9: the aggregation pass leaves the keys of the tag table and the tag
\* record under each key as they are, and no counter is ever negative or
\* decreases.
C9_FrameAndMonotone ==
    /\ [](/\ untaggedCounter >= 0
          /\ \A i \in 1..Len(tagMappings) : tagMappings[i][2][2] >= 0)
    /\ [][pc = "flows" =>
            /\ Len(tagMappings') = Len(tagMappings)
            /\ \A i \in 1..Len(tagMappings) :
                  /\ tagMappings'[i][1] = tagMappings[i][1]
                  /\ tagMappings'[i][2][1] = tagMappings[i][2][1]
                  /\ tagMappings'[i][2][2] >= tagMappings[i][2][2]
            /\ untaggedCounter' >= untaggedCounter]_vars

C9_Witness ==
    /\ pc = "open"
    /\ Len(tagMappings) = 1
    /\ untaggedCounter = 2

\* the data lines of a file: every line after the header
DataLines(file) == 2..Len(file)

\* the flow-log lines with a field count other than 14, or with a protocol
\* field that is no declared IANAProtocolNum value
MalformedFlowLines ==
    {line \in FlowLines :
        \/ Len(Split(line, ",")) # 14
        \/ Split(line, ",")[8] \notin {"1", "4", "6", "17", "41"}}

MalformedFlowLine(line) == line \in MalformedFlowLines

\* a step of the second loop that reads a malformed line
MalformedFlowStep ==
    /\ pc = "flows"
    /\ flowGen.state \in {"running", "suspended"}
    /\ flowGen'.pos = flowGen.pos + 1
    /\ MalformedFlowLine(flowFile[flowGen'.pos])

\* C3: a flow-log line with a wrong field count or an undeclared protocol value
\* is not yielded and changes no counter, and the lines after it are still
\* read: the pass ends only at the end of the file, with one record yielded
\* for every line that is not malformed.
C3_SkipSemantics ==
    /\ [][MalformedFlowStep =>
            /\ flowGen'.state = "running"
            /\ Yielded(flowGen') = Yielded(flowGen)
            /\ UNCHANGED <<tagMappings, untaggedCounter, flowRecord, pc>>]_vars
    /\ [](flowGen.state = "finished" =>
            /\ flowGen.pos = Len(flowFile)
            /\ flowGen.counter =
                  Cardinality({i \in DataLines(flowFile) :
                                  ~MalformedFlowLine(flowFile[i])}))

C3_Witness ==
    /\ pc = "done"
    /\ Len(flowFile) = 3
    /\ MalformedFlowLine(flowFile[2])
    /\ ~MalformedFlowLine(flowFile[3])
    /\ flowGen.counter = 1
    /\ SumCounts(tagMappings) = 1

\* the fields of every tag-mapping line as the tag table is meant to see them
TagParts == [line \in TagLines |-> Split(Lower(Strip(line)), ",")]

ValidTagLines == {line \in TagLines : Len(TagParts[line]) = 3 /\ PyInt(TagParts[line][1]).ok}

ValidTagLine(line) == line \in ValidTagLines

TagKeys == [line \in ValidTagLines |-> <<PyInt(TagParts[line][1]).val, TagParts[line][2]>>]

TagKeyOf(line) == TagKeys[line]

TagOf(line) == TagParts[line][3]

\* the valid tag-mapping lines that no later valid line with the same key follows
SurvivingTagLines ==
    {i \in DataLines(tagFile) :
        /\ ValidTagLine(tagFile[i])
        /\ \A j \in DataLines(tagFile) :
              (j > i /\ ValidTagLine(tagFile[j])) =>
                  TagKeyOf(tagFile[j]) # TagKeyOf(tagFile[i])}

\* the entries of the tag table under key k
EntriesOf(k) == {i \in 1..Len(tagMappings) : tagMappings[i][1] = k}

\* C4: once the tag table is built, a key given by several mapping lines has
\* exactly one entry, which holds the tag of the last of them; its count is 0
\* before the first flow record is read; and the report gives a count to no
\* tag that survives under no key.
C4_LastWriteWins ==
    pc # "tags" =>
       /\ \A i \in DataLines(tagFile) :
             ValidTagLine(tagFile[i]) =>
                Cardinality(EntriesOf(TagKeyOf(tagFile[i]))) = 1
       /\ \A i \in SurvivingTagLines :
             \A e \in EntriesOf(TagKeyOf(tagFile[i])) :
                /\ tagMappings[e][2][1][3] = TagOf(tagFile[i])
                /\ flowGen.state = "created" => tagMappings[e][2][2] = 0
       /\ \A t \in 1..Len(tagCounts) :
             \E i \in SurvivingTagLines : TagOf(tagFile[i]) = tagCounts[t][1]

C4_Witness ==
    /\ pc = "done"
    /\ Len(tagFile) = 3
    /\ ValidTagLine(tagFile[2]) /\ ValidTagLine(tagFile[3])
    /\ TagKeyOf(tagFile[2]) = TagKeyOf(tagFile[3])
    /\ TagOf(tagFile[2]) # TagOf(tagFile[3])
    /\ tagCounts = << <<TagOf(tagFile[3]), 2>> >>

\* the tags held by the tag table
TableTags == {tagMappings[i][2][1][3] : i \in 1..Len(tagMappings)}

\* the sum of the counters of the keys that map to tag t
TagSum(t) == SumCounts(SelectSeq(tagMappings, LAMBDA e : e[2][1][3] = t))

\* C5: the finished report is the line Tag,Count, one line <tag>,<sum of the
\* counters of the keys with that tag> per distinct tag of the tag table, the
\* line Port,Protocol,Count, one line <port>,<protocol>,<count> per key of the
\* tag table, and the line Untagged,<untagged counter>, in this order.
C5_ReportFormat ==
    pc = "done" =>
       LET nT == Cardinality(TableTags)
           nK == Len(tagMappings)
       IN  /\ Len(out) = nT + nK + 3
           /\ out[1] = "Tag,Count\n"
           /\ {out[i] : i \in 2..(nT + 1)} =
                 {t \o "," \o IntToStr(TagSum(t)) \o "\n" : t \in TableTags}
           /\ out[nT + 2] = "Port,Protocol,Count\n"
           /\ {out[i] : i \in (nT + 3)..(nT + nK + 2)} =
                 {IntToStr(tagMappings[i][1][1]) \o "," \o tagMappings[i][1][2] \o ","
                  \o IntToStr(tagMappings[i][2][2]) \o "\n" : i \in 1..nK}
           /\ Cardinality({out[i] : i \in (nT + 3)..(nT + nK + 2)}) = nK
           /\ out[nT + nK + 3] = "Untagged," \o IntToStr(untaggedCounter) \o "\n"

C5_Witness ==
    /\ pc = "done"
    /\ out = << "Tag,Count\n", "email,1\n", "web,0\n", "Port,Protocol,Count\n",
                "25,tcp,1\n", "443,udp,0\n", "Untagged,1\n" >>

\* C6: every key of the tag table has a lower-case protocol, and a flow record
\* whose port and canonical protocol name are those of a well-formed mapping
\* line, whatever the letter case of that line's protocol, is counted under
\* that key and not as untagged.
C6_CaseInsensitive ==
    /\ [](\A i \in 1..Len(tagMappings) :
             Lower(tagMappings[i][1][2]) = tagMappings[i][1][2])
    /\ [][(/\ FlowYieldStep
           /\ \E j \in DataLines(tagFile) :
                 ValidTagLine(tagFile[j]) /\ TagKeyOf(tagFile[j]) = YieldedKey) =>
            /\ untaggedCounter' = untaggedCounter
            /\ \E e \in 1..Len(tagMappings) :
                  /\ tagMappings[e][1] = YieldedKey
                  /\ tagMappings'[e][2][2] = tagMappings[e][2][2] + 1]_vars

C6_Witness ==
    /\ pc = "flows"
    /\ flowGen.state = "suspended"
    /\ tagFile = <<TagHeader, "25,TCP,Email">>
    /\ flowRecord[7] = 25
    /\ flowRecord[8].value = "6"
    /\ tagMappings = << <<<<25, "tcp">>, <<<<25, "tcp", "email">>, 1>>>> >>
    /\ untaggedCounter = 0

\* C7: the flow log is not opened before the tag file is exhausted and all its
\* well-formed lines are in the tag table, and the output file is not opened,
\* and nothing is written, before the flow log is exhausted.
C7_PhaseOrder ==
    /\ (flowGen.state # "created" \/ flowGen.fileOpen \/ flowGen.pos > 0) =>
          /\ tagGen.state = "finished"
          /\ tagGen.pos = Len(tagFile)
          /\ {tagMappings[i][1] : i \in 1..Len(tagMappings)} =
                {TagKeyOf(tagFile[j]) :
                    j \in {n \in DataLines(tagFile) : ValidTagLine(tagFile[n])}}
    /\ (outOpen \/ out # <<>>) =>
          /\ flowGen.state = "finished"
          /\ flowGen.pos = Len(flowFile)
          /\ Yielded(flowGen) =
                Cardinality({i \in DataLines(flowFile) : ~MalformedFlowLine(flowFile[i])})

C7_Witness ==
    /\ pc = "write_ports"
    /\ outOpen
    /\ Len(tagFile) = 3
    /\ Len(flowFile) = 3
    /\ Len(tagMappings) = 2
    /\ flowGen.counter = 2

\* the file a generator of class cls reads
FileOf(cls) == IF cls = "TagRecord" THEN tagFile ELSE flowFile

\* C8: in the summary genRecord logs, every data line that was not yielded is
\* counted as skipped, whether its field count was wrong or a field failed to
\* coerce, so that the total is the number of data lines.
C8_SkipCountComplete ==
    \A i \in 1..Len(log) :
        log[i].event = "Completed parsing" =>
           /\ log[i].total = Cardinality(DataLines(FileOf(log[i].cls)))
           /\ log[i].skipped = Cardinality(DataLines(FileOf(log[i].cls))) - log[i].ok

\* the tag field of every well-formed tag-mapping line as written in the file
RawTags == [line \in ValidTagLines |-> Split(Strip(line), ",")[3]]

\* the positions of the lines of the report's first section that give tag t
TagLinesOf(t) ==
    {n \in 2..(Len(tagCounts) + 1) : StartsWith(out[n], t \o ",")}

\* C10: every tag in the tag table and in the first section of the report is
\* lower-case, and two surviving mapping lines with different keys whose tags
\* differ only in letter case give one report line, with the sum of the
\* counters of the keys of that tag.
C10_TagsLowercased ==
    /\ \A i \in 1..Len(tagMappings) :
          Lower(tagMappings[i][2][1][3]) = tagMappings[i][2][1][3]
    /\ pc \in {"write_ports", "write_untagged", "done"} =>
          /\ \A n \in 2..(Len(tagCounts) + 1) : Lower(out[n]) = out[n]
          /\ \A i, j \in SurvivingTagLines :
                (/\ TagKeyOf(tagFile[i]) # TagKeyOf(tagFile[j])
                 /\ RawTags[tagFile[i]] # RawTags[tagFile[j]]
                 /\ Lower(RawTags[tagFile[i]]) = Lower(RawTags[tagFile[j]])) =>
                   /\ Cardinality(TagLinesOf(Lower(RawTags[tagFile[i]]))) = 1
                   /\ TagLinesOf(RawTags[tagFile[i]]) \subseteq
                         TagLinesOf(Lower(RawTags[tagFile[i]]))
                   /\ \A n \in TagLinesOf(Lower(RawTags[tagFile[i]])) :
                         out[n] = Lower(RawTags[tagFile[i]]) \o ","
                                  \o IntToStr(TagSum(Lower(RawTags[tagFile[i]]))) \o "\n"

C10_Witness ==
    /\ pc = "done"
    /\ tagFile = <<TagHeader, "25,tcp,Web", "443,Udp,web">>
    /\ tagMappings[1][2][2] = 1
    /\ tagMappings[2][2][2] = 1
    /\ out[2] = "web,2\n"

====
